---- MODULE Spec2Model ----
(***************************************************************************)
(* A model of the simdzone front end: option validation, origin parsing,  *)
(* target selection, the file life cycle (open_file / zone_close_file /    *)
(* zone_open_file / zone_close / zone_open) and the two parse entry points *)
(* zone_parse and zone_parse_string, with the sink adapter accept_rr.      *)
(*                                                                         *)
(* Strings are sequences of octets (character codes).  A NULL pointer to   *)
(* a string is the sentinel NullStr, which no C string can equal.          *)
(***************************************************************************)
EXTENDS Integers, Sequences, FiniteSets, TLC

\* ------------------------------------------------------------ bounds
\* The most labels an origin text of the origin specification is built from.
MaxLabels == 4
\* The most records the target's parse routine hands to the sink in one parse.
MaxRecords == 2
\* The largest cache (number of RDATA blocks) the caller provides.
MaxCache == 2
\* The deepest $INCLUDE nesting the model follows.
MaxDepth == 1

\* ------------------------------------------------------- C constants
\* A uint32_t such as default_ttl is kept as its two 16-bit halves, hi and
\* lo (its value is hi * 65536 + lo): the model checker's integers end at
\* 2^31-1 and the values above it matter (zone.c:47).
U32(hi, lo) == [hi |-> hi, lo |-> lo]
U32Greater(a, b) == a.hi > b.hi \/ (a.hi = b.hi /\ a.lo > b.lo)
U32IsZero(a) == a.hi = 0 /\ a.lo = 0
\* INT32_MAX of stdint.h, 2^31-1, as a uint32_t.
INT32_MAX == U32(32767, 65535)
\* The size of a name's octets, uint8_t str[255] (zone.c:64, zone.c:72).
NameSize == 255
\* The longest label (zone.c:78).
LabelMax == 63

\* Result codes of zone.h (the header is not among the sources): distinct
\* negative numbers, zero for success.
ZONE_SUCCESS == 0
ZONE_SYNTAX_ERROR == -1
ZONE_SEMANTIC_ERROR == -2
ZONE_OUT_OF_MEMORY == -3
ZONE_BAD_PARAMETER == -4
ZONE_IO_ERROR == -5

\* Class codes of zone.h.
ZONE_IN == 1
ZONE_CS == 2
ZONE_CH == 3
ZONE_HS == 4

\* --------------------------------------------------------- C strings
NullStr == <<-1>>
\* The label separator '.' (zone.c:75).
Dot == 46

\* origin[i] of a NUL-terminated C string, i counted from 0.
CharAt(s, i) == IF i < Len(s) THEN s[i + 1] ELSE 0

\* tolower(3) on one octet.
tolower(c) == IF c >= 65 /\ c <= 90 THEN c + 32 ELSE c

\* strcasecmp(3): 0 when the strings are equal ignoring case.
strcasecmp(s1, s2) ==
  IF Len(s1) = Len(s2) /\ \A i \in 1..Len(s1) : tolower(s1[i]) = tolower(s2[i])
  THEN 0 ELSE 1

\* ----------------------------------------------------- check_options
\* An option block: the four allocator members, accept.add, origin,
\* default_ttl and default_class.  A BOOLEAN member says the pointer is set.
check_options_no_ttl_limit(options) ==
  LET alloc == (IF options.malloc THEN 1 ELSE 0) + (IF options.realloc THEN 1 ELSE 0)
             + (IF options.free THEN 1 ELSE 0) + (IF options.arena THEN 1 ELSE 0)
  IN  IF alloc # 0 /\ alloc # 4 THEN ZONE_BAD_PARAMETER
      ELSE IF ~options.add THEN ZONE_BAD_PARAMETER
      ELSE IF options.origin = NullStr THEN ZONE_BAD_PARAMETER
      ELSE IF U32IsZero(options.default_ttl) THEN ZONE_BAD_PARAMETER
      ELSE IF options.default_class \notin {ZONE_IN, ZONE_CS, ZONE_CH, ZONE_HS}
           THEN ZONE_BAD_PARAMETER
      ELSE 0

check_options(options) ==
  LET alloc == (IF options.malloc THEN 1 ELSE 0) + (IF options.realloc THEN 1 ELSE 0)
             + (IF options.free THEN 1 ELSE 0) + (IF options.arena THEN 1 ELSE 0)
  IN  IF alloc # 0 /\ alloc # 4 THEN ZONE_BAD_PARAMETER
      ELSE IF ~options.add THEN ZONE_BAD_PARAMETER
      ELSE IF options.origin = NullStr THEN ZONE_BAD_PARAMETER
      ELSE IF U32IsZero(options.default_ttl) \/ U32Greater(options.default_ttl, INT32_MAX)
           THEN ZONE_BAD_PARAMETER
      ELSE IF options.default_class \notin {ZONE_IN, ZONE_CS, ZONE_CH, ZONE_HS}
           THEN ZONE_BAD_PARAMETER
      ELSE 0

\* ------------------------------------------------------ parse_origin
\* The output buffer str[255], which is part of the parser and was cleared
\* by its memset.
ZeroName == [i \in 0..(NameSize - 1) |-> 0]

\* The locals of parse_origin between two iterations of its loop: where the
\* loop stands ("loop": running, "break": left by break, "return": left by
\* return -1), lab, oct, the buffer, and the highest index of the buffer
\* written so far (-1: none).
OriginStart == [at |-> "loop", lab |-> 0, oct |-> 1, str |-> ZeroName, high |-> -1]

\* str[at] = val.  An index outside the buffer is recorded, not stored.
StoreOctet(st, at, val) ==
  [st EXCEPT !.str = IF at < NameSize THEN [st.str EXCEPT ![at] = val] ELSE st.str,
             !.high = IF at > st.high THEN at ELSE st.high]

\* One iteration of the loop, for index i.
parse_origin_step(origin, st, i) ==
  LET chr == CharAt(origin, i) IN
  IF st.at # "loop" THEN st
  ELSE IF st.oct >= NameSize THEN [st EXCEPT !.at = "return"]
  ELSE IF chr = Dot \/ chr = 0 THEN
    IF st.oct - 1 = st.lab /\ st.lab > 0 /\ chr # 0 THEN [st EXCEPT !.at = "return"]
    ELSE IF (st.oct - st.lab) - 1 > LabelMax THEN [st EXCEPT !.at = "return"]
    ELSE LET s1 == StoreOctet(st, st.lab, (st.oct - st.lab) - 1) IN
         IF chr # Dot THEN [s1 EXCEPT !.at = "break"]
         ELSE [StoreOctet(s1, st.oct, 0) EXCEPT !.lab = st.oct, !.oct = st.oct + 1]
  ELSE [StoreOctet(st, st.oct, chr % 256) EXCEPT !.oct = st.oct + 1]

\* The iterations for i = lo, lo+1, ..., hi in this order (computed by
\* halving the range, which keeps the evaluation shallow).
RECURSIVE parse_origin_loop(_, _, _, _)
parse_origin_loop(origin, st, lo, hi) ==
  IF st.at # "loop" \/ lo > hi THEN st
  ELSE IF lo = hi THEN parse_origin_step(origin, st, lo)
  ELSE LET mid == (lo + hi) \div 2 IN
       parse_origin_loop(origin, parse_origin_loop(origin, st, lo, mid), mid + 1, hi)

\* parse_origin: rc is what it returns, len what it stores in *len, str the
\* buffer as it leaves it.  The loop ends at the terminating NUL (index
\* Len(origin)) at the latest.
parse_origin(origin) ==
  LET st == parse_origin_loop(origin, OriginStart, 0, Len(origin)) IN
  IF st.at = "return" THEN [rc |-> -1, len |-> 0, str |-> st.str, high |-> st.high]
  ELSE IF st.str[st.lab] # 0 THEN [rc |-> -1, len |-> 0, str |-> st.str, high |-> st.high]
  ELSE [rc |-> 0, len |-> st.oct, str |-> st.str, high |-> st.high]

\* A name as the parser keeps it: its length and the octets the length covers.
NoName == [length |-> 0, octets |-> <<>>]
NameOf(res) == [length |-> res.len, octets |-> [k \in 1..res.len |-> res.str[k - 1]]]

\* ----------------------------------------------------- select_target
AVX2 == "AVX2"
SSE42 == "SSE42"
haswell == <<104, 97, 115, 119, 101, 108, 108>>
westmere == <<119, 101, 115, 116, 109, 101, 114, 101>>
fallback == <<102, 97, 108, 108, 98, 97, 99, 107>>

\* The table targets[] of a build: ZONE_SUPPORTS_HASWELL and
\* ZONE_SUPPORTS_WESTMERE decide which rows it has.  An instruction set is
\* the set of its bits; the fallback's is 0, the empty set.
targets(build) ==
  (IF build.haswell THEN << [name |-> haswell, instruction_set |-> {AVX2}] >> ELSE << >>)
  \o (IF build.westmere THEN << [name |-> westmere, instruction_set |-> {SSE42}] >> ELSE << >>)
  \o << [name |-> fallback, instruction_set |-> {}] >>

\* The first loop: the index (from 0) of the first row named preferred, or
\* length.
RECURSIVE find_preferred(_, _, _)
find_preferred(tbl, preferred, count) ==
  IF count < Len(tbl) /\ strcasecmp(preferred, tbl[count + 1].name) # 0
  THEN find_preferred(tbl, preferred, count + 1)
  ELSE count

\* The second loop: the first row from count on that needs no instruction
\* set or one the CPU supports; the last row when there is none.
RECURSIVE first_supported(_, _, _)
first_supported(tbl, supported, count) ==
  IF count < Len(tbl)
  THEN IF tbl[count + 1].instruction_set = {}
          \/ (tbl[count + 1].instruction_set \cap supported) # {}
       THEN tbl[count + 1]
       ELSE first_supported(tbl, supported, count + 1)
  ELSE tbl[Len(tbl)]

select_target(build, supported, preferred) ==
  LET tbl == targets(build)
      length == Len(tbl)
      found == IF preferred # NullStr THEN find_preferred(tbl, preferred, 0) ELSE 0
      count == IF preferred # NullStr /\ found = length THEN 0 ELSE found
  IN  first_supported(tbl, supported, count)

\* ------------------------------------------------------------- state
VARIABLES
  pc,          \* where the caller stands: "idle", "opened", "parse", "returned",
               \* "closed", "aborted" (an assertion stopped the process)
  entry,       \* the entry point called: zone_parse, zone_open, zone_parse_string
  options,     \* the option block of the call
  cache_size,  \* parser->cache.size
  files,       \* the file stack: files[1] is parser->first, the last is parser->file
  rdata,       \* parser->rdata as an index into cache.rdata.blocks (-1: NULL)
  result,      \* what the call returned
  live,        \* what the parser holds of each kind of resource
  badfree,     \* releases of something the parser did not hold
  io,          \* the file operations performed so far
  returns,     \* what the accept callback returned, call by call
  normal,      \* the target's parse routine returned (no longjmp)
  target,      \* the name of the target parse() selected
  asserted,    \* an assertion of zone_close_file failed
  high,        \* the highest index of origin.octets parse_origin wrote (-1: none)
  isa,         \* target selection alone: the build, the CPU's bits, ZONE_TARGET
  selected     \* target selection alone: the name select_target returned

vars == << pc, entry, options, cache_size, files, rdata, result, live, badfree, io,
           returns, normal, target, asserted, high, isa, selected >>

\* The part of the state the C functions below read and write.
Machine == [files |-> files, live |-> live, badfree |-> badfree, io |-> io,
            asserted |-> asserted, rdata |-> rdata, cache_size |-> cache_size,
            high |-> high]

Kinds == {"name", "path", "buffer", "handle", "file"}
NoneLive == [k \in Kinds |-> 0]

\* A zone_file_t after memset(.., 0, ..): name, path and buffer.data are
\* "NULL", "alloc" (the parser's allocation), or the caller's: "not_a_file"
\* (the static placeholder) and "string".  handle: the FILE * is set.
ZeroFile == [name |-> "NULL", path |-> "NULL", handle |-> FALSE, buffer |-> "NULL",
             origin |-> NoName, owner |-> NoName]

\* zone_malloc, zone_strdup, zone_strndup, fopen: one more held.
Acquire(m, kind) == [m EXCEPT !.live[kind] = @ + 1]

\* zone_free, fclose: of what a field points to.  Only "alloc" is the parser's.
Release(m, kind, what) ==
  IF what = "alloc" /\ m.live[kind] > 0
  THEN [m EXCEPT !.live[kind] = @ - 1]
  ELSE [m EXCEPT !.badfree = @ + 1]

\* --------------------------------------------------------- open_file
\* What the environment answers: which call fails, if any.
OpenOutcomes == {"strndup_null", "realpath_fail", "strdup_null", "fopen_enomem",
                 "fopen_fail", "malloc_null", "ok"}

\* open_file on files[k] (the POSIX branch): the machine and the result.
open_file(m, k, env) ==
  IF env = "strndup_null"
  THEN [m |-> [m EXCEPT !.files[k].name = "NULL"], result |-> ZONE_OUT_OF_MEMORY]
  ELSE
  LET m1 == Acquire([m EXCEPT !.files[k].name = "alloc"], "name")
      m2 == [m1 EXCEPT !.io = @ \cup {"realpath"}]
  IN  IF env = "realpath_fail" THEN [m |-> m2, result |-> ZONE_IO_ERROR]
      ELSE IF env = "strdup_null"
      THEN [m |-> [m2 EXCEPT !.files[k].path = "NULL"], result |-> ZONE_OUT_OF_MEMORY]
      ELSE
      LET m3 == Acquire([m2 EXCEPT !.files[k].path = "alloc"], "path")
          m4 == [m3 EXCEPT !.io = @ \cup {"fopen"}]
      IN  IF env = "fopen_enomem" THEN [m |-> m4, result |-> ZONE_OUT_OF_MEMORY]
          ELSE IF env = "fopen_fail" THEN [m |-> m4, result |-> ZONE_IO_ERROR]
          ELSE
          LET m5 == Acquire([m4 EXCEPT !.files[k].handle = TRUE], "handle") IN
          IF env = "malloc_null"
          THEN [m |-> [m5 EXCEPT !.files[k].buffer = "NULL"], result |-> ZONE_OUT_OF_MEMORY]
          ELSE [m |-> Acquire([m5 EXCEPT !.files[k].buffer = "alloc"], "buffer"),
                result |-> 0]

\* ------------------------------------------------------ set_defaults
\* parser->rdata = &parser->cache.rdata.blocks[0]; parser->owner is the
\* owner of parser->file, the last of files.  (The log categories play no
\* part here.)
set_defaults(m) == [m EXCEPT !.rdata = 0]

\* --------------------------------------------------- zone_close_file
\* The two assertions at its top.
CloseFileAsserts(file) ==
  /\ (file.name = "not_a_file") = (~file.handle)
  /\ (file.path = "not_a_file") = (~file.handle)

\* zone_close_file on files[k]; files[k] is parser->first when k = 1, and a
\* heap entry otherwise.  A failed assertion is recorded; what follows it is
\* what a build without assertions does.
zone_close_file(m, k) ==
  LET file == m.files[k]
      m0 == [m EXCEPT !.asserted = @ \/ ~CloseFileAsserts(file)]
  IN  IF ~file.handle THEN m0
      ELSE
      LET m1 == IF file.buffer # "NULL" THEN Release(m0, "buffer", file.buffer) ELSE m0
          m2 == [m1 EXCEPT !.files[k].buffer = "NULL"]
          m3 == IF file.name # "NULL" THEN Release(m2, "name", file.name) ELSE m2
          m4 == [m3 EXCEPT !.files[k].name = "NULL"]
          m5 == IF file.path # "NULL" THEN Release(m4, "path", file.path) ELSE m4
          m6 == [m5 EXCEPT !.files[k].path = "NULL"]
          m7 == [Release(m6, "handle", "alloc") EXCEPT !.files[k].handle = FALSE]
      IN  IF k # 1 THEN Release(m7, "file", "alloc") ELSE m7

\* ---------------------------------------------------- zone_open_file
\* malloc of the entry, memset, open_file; on an error zone_close_file.
\* The new entry is the last of files; the caller links or drops it.
\* atassert: the machine as the assertions of zone_close_file saw it.
zone_open_file(m, env) ==
  IF env = "file_null" THEN [m |-> m, atassert |-> m, result |-> ZONE_OUT_OF_MEMORY]
  ELSE
  LET m1 == Acquire([m EXCEPT !.files = Append(@, ZeroFile)], "file")
      k  == Len(m1.files)
      of == open_file(m1, k, env)
  IN  IF of.result < 0
      THEN [m |-> zone_close_file(of.m, k), atassert |-> of.m, result |-> of.result]
      ELSE [m |-> of.m, atassert |-> of.m, result |-> 0]

\* -------------------------------------------------------- zone_close
\* From parser->file down the includer links: zone_close_file on every file
\* that has a handle.
RECURSIVE zone_close_from(_, _)
zone_close_from(m, k) ==
  IF k = 0 THEN m
  ELSE zone_close_from(IF m.files[k].handle THEN zone_close_file(m, k) ELSE m, k - 1)

zone_close(m) == zone_close_from(m, Len(m.files))

\* --------------------------------------------------------- zone_open
\* memset(parser, 0, sizeof(*parser)) and file = parser->file = &parser->first.
ClearParser(m) == [m EXCEPT !.files = << ZeroFile >>, !.rdata = -1, !.cache_size = 0]

\* The assignments after the origin is parsed, shared word for word by
\* zone_open (312-322) and zone_parse_string (385-395).
SetUpParser(m, name, size) ==
  set_defaults([m EXCEPT !.cache_size = size,
                         !.files[1].origin = name,
                         !.files[1].owner = name])

zone_open(m, opts, size, env) ==
  IF check_options(opts) < 0 THEN [m |-> m, result |-> check_options(opts)]
  ELSE
  LET of == open_file(ClearParser(m), 1, env) IN
  IF of.result < 0 THEN [m |-> zone_close(of.m), result |-> of.result]
  ELSE
  LET po == parse_origin(opts.origin)
      m1 == [of.m EXCEPT !.high = po.high]
  IN  IF po.rc < 0 THEN [m |-> zone_close(m1), result |-> ZONE_BAD_PARAMETER]
      ELSE [m |-> SetUpParser(m1, NameOf(po), size), result |-> 0]

\* ------------------------------------------------- zone_parse_string
\* Up to the call of parse().
zone_parse_string_open(m, opts, size) ==
  IF check_options(opts) < 0 THEN [m |-> m, result |-> check_options(opts)]
  ELSE
  LET po == parse_origin(opts.origin)
      m1 == [ClearParser(m) EXCEPT !.high = po.high]
  IN  IF po.rc < 0 THEN [m |-> m1, result |-> po.rc]
      ELSE [m |-> SetUpParser([m1 EXCEPT !.files[1].name = "not_a_file",
                                         !.files[1].path = "not_a_file",
                                         !.files[1].handle = FALSE,
                                         !.files[1].buffer = "string"],
                              NameOf(po), size),
            result |-> 0]

\* --------------------------------------------------------- accept_rr
\* What setjmp returns after longjmp(env, val).
LongjmpValue(val) == IF val = 0 THEN 1 ELSE val

\* accept_rr after the callback returned r: a longjmp with r, or the switch
\* of parser->rdata to block r.  (Its assertion states the callback's
\* contract, r < cache.size.)
accept_rr_ignores_slot(m, r) ==
  IF r < 0 THEN [jump |-> TRUE, value |-> LongjmpValue(r), m |-> m]
  ELSE [jump |-> FALSE, value |-> 0, m |-> m]

accept_rr_jumps_on_zero(m, r) ==
  IF r <= 0 THEN [jump |-> TRUE, value |-> LongjmpValue(r), m |-> m]
  ELSE [jump |-> FALSE, value |-> 0, m |-> [m EXCEPT !.rdata = r]]

accept_rr(m, r) ==
  IF r < 0 THEN [jump |-> TRUE, value |-> LongjmpValue(r), m |-> m]
  ELSE [jump |-> FALSE, value |-> 0, m |-> [m EXCEPT !.rdata = r]]

\* parse(): the result after setjmp returned jumped (0 the first time, the
\* longjmp's value otherwise); the target's parse routine returns
\* ZONE_SUCCESS, as parse() asserts.
parse(jumped) == IF jumped = 0 THEN ZONE_SUCCESS ELSE jumped

\* ------------------------------------------------------------ inputs
\* Origin texts of the life-cycle specification: "", ".", "a.", "a", ".a."
\* and "a..a.".
Origins == { << >>, << Dot >>, << 97, Dot >>, << 97 >>,
             << Dot, 97, Dot >>, << 97, Dot, Dot, 97, Dot >> }

\* default_ttl: 0, 1, 2^31-1, 2^31, 2^32-1.
Ttls == { U32(0, 0), U32(0, 1), INT32_MAX, U32(32768, 0), U32(65535, 65535) }

\* default_class: the four classes, and 0 and 5.
Classes == 0..5

OptionBlocks ==
  [malloc : BOOLEAN, realloc : BOOLEAN, free : BOOLEAN, arena : BOOLEAN,
   add : BOOLEAN, origin : Origins \cup {NullStr},
   default_ttl : Ttls, default_class : Classes]

NoOptions == [malloc |-> FALSE, realloc |-> FALSE, free |-> FALSE, arena |-> FALSE,
              add |-> FALSE, origin |-> NullStr,
              default_ttl |-> U32(0, 0), default_class |-> 0]

\* What a callback may return: a slot of the cache, or a negative code (one
\* of the parser's own and one of the caller's).
SinkCodes == { ZONE_SYNTAX_ERROR, -100 }
SinkReturns(size) == (0..(size - 1)) \cup SinkCodes

\* What the target's parse routine reports by longjmp.
ErrorCodes == { ZONE_SYNTAX_ERROR, ZONE_SEMANTIC_ERROR, ZONE_OUT_OF_MEMORY, ZONE_IO_ERROR }

\* The builds, the CPUs and the values of ZONE_TARGET: unset, the three
\* names, "Haswell", "WESTMERE", "neon" and "".
Builds == [haswell : BOOLEAN, westmere : BOOLEAN]
Cpus == SUBSET {AVX2, SSE42, "PCLMULQDQ"}
Preferred == { NullStr, haswell, westmere, fallback,
               << 72, 97, 115, 119, 101, 108, 108 >>,
               << 87, 69, 83, 84, 77, 69, 82, 69 >>,
               << 110, 101, 111, 110 >>, << >> }
NoIsa == [build |-> [haswell |-> FALSE, westmere |-> FALSE], supported |-> {},
          preferred |-> NullStr]

\* -------------------------------------------------------------- Init
InitParser ==
  /\ pc = "idle"
  /\ entry = "none"
  /\ options = NoOptions
  /\ cache_size = 0
  /\ files = << >>
  /\ rdata = -1
  /\ result = 0
  /\ live = NoneLive
  /\ badfree = 0
  /\ io = {}
  /\ returns = << >>
  /\ normal = FALSE
  /\ target = << >>
  /\ asserted = FALSE
  /\ high = -1

Init ==
  /\ InitParser
  /\ isa = NoIsa
  /\ selected = << >>

\* The machine's variables take the values of m.
Commit(m) ==
  /\ files' = m.files
  /\ live' = m.live
  /\ badfree' = m.badfree
  /\ io' = m.io
  /\ asserted' = m.asserted
  /\ rdata' = m.rdata
  /\ cache_size' = m.cache_size
  /\ high' = m.high

\* ---------------------------------------------------------- actions
\* zone_parse(parser, options, cache, path, user_data) up to its call of
\* parse(): zone_open, and the return of its error.
ZoneParseWith(opts, size, env) ==
  /\ LET zo == zone_open(Machine, opts, size, env) IN
       /\ Commit(zo.m)
       /\ result' = zo.result
       /\ pc' = IF zo.result < 0 THEN "returned" ELSE "opened"
  /\ entry' = "zone_parse"
  /\ options' = opts
  /\ UNCHANGED << returns, normal, target, isa, selected >>

ZoneParse ==
  /\ pc = "idle"
  /\ \E opts \in OptionBlocks, size \in 1..MaxCache, env \in OpenOutcomes :
       ZoneParseWith(opts, size, env)

\* zone_open called by itself: it returns with the parser open, or an error.
ZoneOpen ==
  /\ pc = "idle"
  /\ \E opts \in OptionBlocks, size \in 1..MaxCache, env \in OpenOutcomes :
       /\ LET zo == zone_open(Machine, opts, size, env) IN
            /\ Commit(zo.m)
            /\ result' = zo.result
       /\ options' = opts
  /\ pc' = "returned"
  /\ entry' = "zone_open"
  /\ UNCHANGED << returns, normal, target, isa, selected >>

\* zone_close called on the parser zone_open opened.
ZoneClose ==
  /\ pc = "returned"
  /\ entry = "zone_open"
  /\ result = 0
  /\ Commit(zone_close(Machine))
  /\ pc' = "closed"
  /\ UNCHANGED << entry, options, result, returns, normal, target, isa, selected >>

\* zone_parse_string(parser, options, cache, string, length, user_data) up
\* to its call of parse().
ZoneParseStringWith(opts, size) ==
  /\ LET zo == zone_parse_string_open(Machine, opts, size) IN
       /\ Commit(zo.m)
       /\ result' = zo.result
       /\ pc' = IF zo.result < 0 THEN "returned" ELSE "opened"
  /\ entry' = "zone_parse_string"
  /\ options' = opts
  /\ UNCHANGED << returns, normal, target, isa, selected >>

ZoneParseString ==
  /\ pc = "idle"
  /\ \E opts \in OptionBlocks, size \in 1..MaxCache : ZoneParseStringWith(opts, size)

\* parse() up to the call of the target's parse routine: select_target in
\* the build, on the CPU and with the environment of the run, and setjmp.
StartParse ==
  /\ pc = "opened"
  /\ \E build \in Builds, supported \in Cpus, preferred \in Preferred :
       target' = select_target(build, supported, preferred).name
  /\ pc' = "parse"
  /\ UNCHANGED << entry, options, cache_size, files, rdata, result, live, badfree, io,
                  returns, normal, asserted, high, isa, selected >>

\* The end of parse() and of the entry point: the result, zone_close, return.
Leave(m, jumped) ==
  /\ result' = parse(jumped)
  /\ Commit(zone_close(m))
  /\ pc' = "returned"

\* The target's parse routine completed a record: accept_rr with the
\* callback's answer r.  A record of a file was read from it.
AcceptRR ==
  /\ pc = "parse"
  /\ Len(returns) < MaxRecords
  /\ \E r \in SinkReturns(cache_size) :
       LET m0 == [Machine EXCEPT !.io = IF files[Len(files)].handle
                                         THEN @ \cup {"fread"} ELSE @]
           a  == accept_rr(m0, r)
       IN  /\ returns' = Append(returns, r)
           /\ IF a.jump THEN Leave(a.m, a.value)
              ELSE Commit(a.m) /\ UNCHANGED << pc, result >>
  /\ UNCHANGED << entry, options, normal, target, isa, selected >>

\* The target's parse routine reached the end of the first file and returns.
TargetReturns ==
  /\ pc = "parse"
  /\ Len(files) = 1
  /\ normal' = TRUE
  /\ Leave(Machine, 0)
  /\ UNCHANGED << entry, options, returns, target, isa, selected >>

\* The target's parse routine found an error (SYNTAX_ERROR, SEMANTIC_ERROR,
\* ...): longjmp with its code.
RaiseError ==
  /\ pc = "parse"
  /\ \E code \in ErrorCodes : Leave(Machine, LongjmpValue(code))
  /\ UNCHANGED << entry, options, returns, normal, target, isa, selected >>

\* $INCLUDE: zone_open_file; the new file goes on the stack with the
\* origin of its includer, or the error ends the parse.  When an assertion
\* of zone_close_file failed, a build with assertions stops there.
Include ==
  /\ pc = "parse"
  /\ Len(files) <= MaxDepth
  /\ \E env \in OpenOutcomes \cup {"file_null"} :
       LET zf == zone_open_file(Machine, env)
           k  == Len(files) + 1
       IN  IF zf.result = 0
           THEN /\ Commit([zf.m EXCEPT !.files[k].origin = files[k - 1].origin,
                                       !.files[k].owner = files[k - 1].origin])
                /\ UNCHANGED << pc, result >>
           ELSE \/ /\ zf.m.asserted
                   /\ Commit([zf.atassert EXCEPT !.asserted = TRUE])
                   /\ pc' = "aborted"
                   /\ UNCHANGED result
                \/ Leave([zf.m EXCEPT !.files = SubSeq(@, 1, k - 1)],
                         LongjmpValue(zf.result))
  /\ UNCHANGED << entry, options, returns, normal, target, isa, selected >>

\* The end of an included file: zone_close_file, and parser->file is its
\* includer again.
EndInclude ==
  /\ pc = "parse"
  /\ Len(files) > 1
  /\ LET m1 == zone_close_file(Machine, Len(files)) IN
       Commit([m1 EXCEPT !.files = SubSeq(@, 1, Len(files) - 1)])
  /\ UNCHANGED << pc, entry, options, result, returns, normal, target, isa, selected >>

Next ==
  \/ ZoneParse
  \/ ZoneOpen
  \/ ZoneClose
  \/ ZoneParseString
  \/ StartParse
  \/ AcceptRR
  \/ TargetReturns
  \/ RaiseError
  \/ Include
  \/ EndInclude

Spec == Init /\ [][Next]_vars

\* ------------------------------------------- origin texts at the limits
\* Label lengths around the limits: empty, one octet, and 61..64 octets
\* (four labels of 63, 63, 63 and 61 octets make a name of 255 octets).
LabelLens == {0, 1, LabelMax - 2, LabelMax - 1, LabelMax, LabelMax + 1}

\* A label of n octets, each the letter a.
Label(n) == [i \in 1..n |-> 97]

\* The labels of the given lengths, joined by dots.
RECURSIVE JoinLabels(_)
JoinLabels(lens) ==
  IF lens = << >> THEN << >>
  ELSE IF Len(lens) = 1 THEN Label(lens[1])
  ELSE Label(lens[1]) \o << Dot >> \o JoinLabels(Tail(lens))

\* Every text of at most MaxLabels such labels, with and without a final dot.
OriginTexts ==
  { JoinLabels(lens) \o last :
      lens \in UNION { [1..n -> LabelLens] : n \in 0..MaxLabels },
      last \in { << >>, << Dot >> } }

\* A valid option block with the given origin.
OriginOptions(text) ==
  [malloc |-> FALSE, realloc |-> FALSE, free |-> FALSE, arena |-> FALSE,
   add |-> TRUE, origin |-> text, default_ttl |-> U32(0, 3600),
   default_class |-> ZONE_IN]

\* zone_parse_string with an origin at the limits.
ZoneParseStringOrigin ==
  /\ pc = "idle"
  /\ \E text \in OriginTexts : ZoneParseStringWith(OriginOptions(text), 1)

NextOrigin ==
  \/ ZoneParseStringOrigin
  \/ StartParse
  \/ TargetReturns

SpecOrigin == Init /\ [][NextOrigin]_vars

\* ------------------------------------------------ target selection alone
InitTarget ==
  /\ InitParser
  /\ isa \in [build : Builds, supported : Cpus, preferred : Preferred]
  /\ selected = << >>

\* select_target() in the build, on the CPU and with the ZONE_TARGET of isa.
SelectTarget ==
  /\ selected = << >>
  /\ selected' = select_target(isa.build, isa.supported, isa.preferred).name
  /\ UNCHANGED << pc, entry, options, cache_size, files, rdata, result, live, badfree,
                  io, returns, normal, target, asserted, high, isa >>

NextTarget == SelectTarget

SpecTarget == InitTarget /\ [][NextTarget]_vars

\* ============================================================ claims
Last(seq) == seq[Len(seq)]

\* The call of an entry point returned before parse() was reached.
ReturnedEarly == pc = "returned" /\ target = << >>

\* ---------------------------------------------------------------- C1
\* The conditions the claim lists: a missing accept.add or origin, a
\* default_ttl of 0 or above 2^31-1 (hi >= 2^15), a default_class outside
\* IN, CS, CH, HS, or one to three of the four allocator members set.
AllocatorMembers(o) == { o.malloc, o.realloc, o.free, o.arena }
OptionsBad(o) ==
  \/ ~o.add
  \/ o.origin = NullStr
  \/ (o.default_ttl.hi = 0 /\ o.default_ttl.lo = 0)
  \/ o.default_ttl.hi >= 32768
  \/ o.default_class \notin {1, 2, 3, 4}
  \/ AllocatorMembers(o) = {TRUE, FALSE}

\* C1: every entry point runs check_options first: a call with an option
\* block the claim lists as bad returns the bad-parameter code with the
\* parser untouched, and a call with any other block gets past validation
\* (the parser is cleared and set up from the block); check_options is
\* ZONE_BAD_PARAMETER on the first and 0 on the second.
C1_OptionValidation ==
  entry # "none" =>
    /\ OptionsBad(options) =>
         /\ check_options(options) = ZONE_BAD_PARAMETER
         /\ pc = "returned" /\ result = ZONE_BAD_PARAMETER /\ files = << >>
    /\ ~OptionsBad(options) =>
         /\ check_options(options) = 0
         /\ files # << >>

\* A block whose only fault is a default_ttl of 2^31 was rejected by
\* zone_parse_string.
C1_Witness ==
  /\ entry = "zone_parse_string" /\ pc = "returned" /\ result = ZONE_BAD_PARAMETER
  /\ options.add /\ options.origin = << 97, Dot >>
  /\ options.default_class = ZONE_CH /\ AllocatorMembers(options) = {TRUE}
  /\ options.default_ttl = U32(32768, 0)

\* ---------------------------------------------------------------- C2
\* C2 (as claimed): when the options pass check_options and parse_origin
\* fails on the origin, zone_parse and zone_parse_string both return the
\* bad-parameter code.  (Stated for the calls in which no allocation and no
\* file operation failed, which return neither out-of-memory nor I/O error.)
C2_InvalidOriginIsBadParameter ==
  ( /\ pc = "returned"
    /\ entry \in {"zone_parse", "zone_parse_string"}
    /\ check_options(options) = 0
    /\ parse_origin(options.origin).rc < 0
    /\ result \notin {ZONE_OUT_OF_MEMORY, ZONE_IO_ERROR} )
  => result = ZONE_BAD_PARAMETER

\* ---------------------------------------------------------------- C3
\* C3 (as claimed): when zone_parse or zone_open returns the bad-parameter
\* code, no path was resolved and no file opened or read.
C3_ParameterErrorBeforeIO ==
  ( /\ ReturnedEarly
    /\ entry \in {"zone_parse", "zone_open"}
    /\ result = ZONE_BAD_PARAMETER )
  => io = {}

\* ---------------------------------------------------------------- C4
\* The label starting at octet pos is the root label and the last octet, or
\* has 1..63 octets and is followed by such labels.
RECURSIVE LabelsFrom(_, _)
LabelsFrom(octets, pos) ==
  IF pos > Len(octets) THEN FALSE
  ELSE IF octets[pos] = 0 THEN pos = Len(octets)
  ELSE octets[pos] <= 63 /\ LabelsFrom(octets, pos + octets[pos] + 1)

Canonical(name) ==
  /\ name.length >= 1 /\ name.length <= 255
  /\ Len(name.octets) = name.length
  /\ LabelsFrom(name.octets, 1)

\* C4 (as claimed): once an entry point accepted the origin, the stored
\* origin is a canonical name and the owner is the origin.
C4_StoredOriginCanonical ==
  pc = "opened" =>
    /\ Canonical(files[1].origin)
    /\ files[1].owner = files[1].origin

\* ---------------------------------------------------------------- C5
\* The CPU supports what a row of targets[] needs.
RowSupported(row, supported) ==
  row.instruction_set = {} \/ (row.instruction_set \cap supported) # {}

\* The first supported row in priority order.
PriorityChoice(build, supported) ==
  LET tbl == targets(build)
      i == CHOOSE i \in 1..Len(tbl) :
             /\ RowSupported(tbl[i], supported)
             /\ \A j \in 1..(i - 1) : ~RowSupported(tbl[j], supported)
  IN  tbl[i].name

\* The rows ZONE_TARGET names, ignoring case.
NamedRows(build, preferred) ==
  { i \in 1..Len(targets(build)) :
      /\ Len(targets(build)[i].name) = Len(preferred)
      /\ \A k \in 1..Len(preferred) :
           tolower(preferred[k]) = tolower(targets(build)[i].name[k]) }

\* C5 (as claimed): ZONE_TARGET naming a supported variant selects it; unset,
\* or naming an unknown or an unsupported variant, it selects what the
\* priority order selects.
C5_TargetSelection ==
  selected # << >> =>
    LET tbl == targets(isa.build)
        named == IF isa.preferred = NullStr THEN {}
                 ELSE { i \in NamedRows(isa.build, isa.preferred) :
                          RowSupported(tbl[i], isa.supported) }
    IN  IF named # {}
        THEN \E i \in named : selected = tbl[i].name
        ELSE selected = PriorityChoice(isa.build, isa.supported)

\* ---------------------------------------------------------------- C6
\* In every state: a negative answer c of the callback has ended the parse
\* with the result c (the entry point has returned c, the parse routine did
\* not return normally); the result of a parse is never positive, and 0
\* only when the target's parse routine returned.
C6_Results ==
  /\ (returns # << >> /\ Last(returns) < 0) =>
       pc = "returned" /\ result = Last(returns) /\ ~normal
  /\ (pc = "returned" /\ entry \in {"zone_parse", "zone_parse_string"}) =>
       /\ result <= 0
       /\ (result = 0 => normal)

\* In every step: after a negative answer the callback is not called again.
C6_NoCallAfterAbort ==
  (returns # << >> /\ Last(returns) < 0) => returns' = returns

\* C6: a negative answer c of the accept callback ends the parse at once,
\* the callback is not called again and zone_parse / zone_parse_string
\* return exactly c; the result of a parse is 0, and then the target's parse
\* routine returned normally, or negative, never positive.
C6_SinkAbort == [] C6_Results /\ [][C6_NoCallAfterAbort]_vars

\* The callback answered 0 and then -100, and zone_parse returned -100.
C6_Witness ==
  /\ pc = "returned" /\ entry = "zone_parse"
  /\ returns = << 0, -100 >> /\ result = -100

\* ---------------------------------------------------------------- C7
\* The slot the callback named last, slot 0 before it named any.
RECURSIVE LastSlot(_)
LastSlot(seq) ==
  IF seq = << >> THEN 0
  ELSE IF Last(seq) >= 0 THEN Last(seq)
  ELSE LastSlot(SubSeq(seq, 1, Len(seq) - 1))

\* C7: from the set-up of the parser on, the active RDATA block is a block
\* of the caller's cache: block 0 until the callback names a slot, and
\* then the slot it named last.
C7_CacheHandoff ==
  cache_size > 0 =>
    /\ rdata \in 0..(cache_size - 1)
    /\ rdata = LastSlot(returns)

\* The callback named slot 0 and then slot 1, and block 1 is active.
C7_Witness ==
  /\ pc = "parse" /\ returns = << 0, 1 >> /\ rdata = 1 /\ cache_size = 2

\* ---------------------------------------------------------------- C8
\* C8 (as claimed): when zone_parse or zone_parse_string has returned, when
\* zone_open has returned an error, and when zone_close closed what
\* zone_open opened, the parser holds nothing and released nothing twice.
C8_ResourceDiscipline ==
  ( \/ (pc = "returned" /\ entry \in {"zone_parse", "zone_parse_string"})
    \/ (pc = "returned" /\ entry = "zone_open" /\ result < 0)
    \/ pc = "closed" )
  => (\A k \in Kinds : live[k] = 0) /\ badfree = 0

\* ---------------------------------------------------------------- C9
\* C9 (as claimed): the assertions of zone_close_file hold at every call.
C9_CloseFileAssertions == ~asserted

\* --------------------------------------------------------------- C10
EndsInDot(text) == Len(text) > 0 /\ Last(text) = Dot

\* The lengths of the labels of a text: what lies between its start or a
\* dot and the next dot.  "." is the root, which has no labels.
LabelLengths(text) ==
  IF text = << Dot >> THEN {}
  ELSE { d - (CHOOSE p \in 0..(d - 1) :
                 /\ (p = 0 \/ text[p] = Dot)
                 /\ \A q \in (p + 1)..(d - 1) : text[q] # Dot) - 1 :
         d \in { i \in 1..Len(text) : text[i] = Dot } }

\* The wire form of an absolute text: a length octet per label, the labels,
\* and the root.
WireLength(text) == IF text = << Dot >> THEN 1 ELSE Len(text) + 1

\* C10 (as claimed): an absolute origin with labels of 1..63 octets and a
\* wire form of at most 255 octets is accepted; an origin is rejected only
\* for a label over 63 octets, a wire form over 255 octets, an empty label
\* or a missing final dot; no index of 255 or above is written.
C10_OriginLimits ==
  (entry = "zone_parse_string" /\ check_options(options) = 0) =>
    LET text == options.origin
        accepted == files[1].origin.length > 0
    IN  /\ ( /\ EndsInDot(text)
             /\ \A n \in LabelLengths(text) : n >= 1 /\ n <= 63
             /\ WireLength(text) <= 255 ) => accepted
        /\ ~accepted =>
             \/ ~EndsInDot(text)
             \/ \E n \in LabelLengths(text) : n > 63 \/ n = 0
             \/ WireLength(text) > 255
        /\ high < 255

====
